---- MODULE Spec2Model ----
(***************************************************************************)
(* Model of planning/sparkline_point.py: sparkline_point_js, the generator *)
(* of the Plotly sparkline code, and its nested colour translator to_rgba. *)
(*                                                                         *)
(* Conventions.                                                            *)
(*  - A Python str is a sequence of one-character strings when its         *)
(*    characters matter (colour descriptors), a TLA+ string otherwise      *)
(*    (column names, labels).                                              *)
(*  - A parameter typed "str | list[str] | None" is a tagged record        *)
(*    [kind, s, l] with kind in {"none", "str", "list"}.                   *)
(*  - A float is an integer number of tenths (5.1 is 51, 0.5 is 5).        *)
(*  - A text produced by ", ".join(...) is the sequence of its entries:    *)
(*    the JavaScript template wraps it in [ ] and indexes it.              *)
(***************************************************************************)
EXTENDS Integers, Sequences, FiniteSets, TLC

VARIABLES
    pc,             \* position in sparkline_point_js
    ran,            \* the blocks of the function executed so far, in order
    tbl,            \* the DataFrame: [columns, data]
    req,            \* the arguments as the caller passed them
    typ,            \* parameter type
    x, x_lower, x_upper, xlim, y, text,
    color, color_errorbar, legend_label, margin,
    js_x, js_y, js_x_lower, js_x_upper, js_x_range, js_y_range,
    js_text, js_color, js_color_errorbar, js_legend_label, js_margin,
    data_traces,    \* the list data_traces
    template_content, \* what was read from sparkline.js
    raised,         \* the exception raised, if any
    js_code,        \* the returned string, if any
    color_name,     \* to_rgba called on its own: the argument
    rgba_out        \* to_rgba called on its own: the returned literal

vars == <<pc, ran, tbl, req, typ, x, x_lower, x_upper, xlim, y, text,
          color, color_errorbar, legend_label, margin,
          js_x, js_y, js_x_lower, js_x_upper, js_x_range, js_y_range,
          js_text, js_color, js_color_errorbar, js_legend_label, js_margin,
          data_traces, template_content, raised, js_code, color_name, rgba_out>>

(***************************************************************************)
(* Bounds of the model.                                                    *)
(***************************************************************************)
\* Longest list of value columns (and of any per-series list) enumerated.
MaxSeries == 2
\* Most rows of the DataFrame enumerated.
MaxRows == 2
\* Longest run of characters after '#' enumerated exhaustively.
MaxHexLen == 6

(***************************************************************************)
(* Generic helpers.                                                        *)
(***************************************************************************)
\* Python's [v] * n
Repeat(v, n) == [i \in 1..n |-> v]

\* All sequences over S of a length in lo..hi
SeqsOf(S, lo, hi) == UNION { [1..n -> S] : n \in lo..hi }

\* The elements of a sequence
Range(s) == { s[i] : i \in 1..Len(s) }

\* str | list | None
None == [kind |-> "none", s |-> "", l |-> <<>>]
Str(v) == [kind |-> "str", s |-> v, l |-> <<>>]
List(q) == [kind |-> "list", s |-> "", l |-> q]

(***************************************************************************)
(* to_rgba (lines 137-164).                                                *)
(***************************************************************************)
Whitespace == {" "}

LowerDigits == <<"0", "1", "2", "3", "4", "5", "6", "7",
                 "8", "9", "a", "b", "c", "d", "e", "f">>
UpperDigits == <<"0", "1", "2", "3", "4", "5", "6", "7",
                 "8", "9", "A", "B", "C", "D", "E", "F">>

IsHexDigit(c) == c \in Range(LowerDigits) \cup Range(UpperDigits)

\* The value of one hexadecimal digit
HexVal(c) ==
    CHOOSE v \in 0..15 : LowerDigits[v + 1] = c \/ UpperDigits[v + 1] = c

\* str.lower() on one character, for the letters the model uses
LowerChar(c) ==
    CASE c = "R" -> "r"
      [] c = "G" -> "g"
      [] c = "B" -> "b"
      [] c \in Range(UpperDigits) -> LowerDigits[HexVal(c) + 1]
      [] OTHER -> c

Lower(s) == [i \in 1..Len(s) |-> LowerChar(s[i])]

\* str.strip()
RECURSIVE LStrip(_)
LStrip(s) ==
    IF s # <<>> /\ Head(s) \in Whitespace THEN LStrip(Tail(s)) ELSE s

RECURSIVE RStrip(_)
RStrip(s) ==
    IF s # <<>> /\ s[Len(s)] \in Whitespace
    THEN RStrip(SubSeq(s, 1, Len(s) - 1))
    ELSE s

Strip(s) == RStrip(LStrip(s))

\* str.startswith(prefix)
StartsWith(s, prefix) ==
    Len(s) >= Len(prefix) /\ SubSeq(s, 1, Len(prefix)) = prefix

\* int(s, 16) of a two-character text: surrounding whitespace is dropped, one
\* sign is accepted, what is left must be hexadecimal digits; anything else
\* raises ValueError ([ok |-> FALSE]).
ParseInt16(s) ==
    LET t == Strip(s) IN
    CASE Len(t) = 1 /\ IsHexDigit(t[1]) ->
            [ok |-> TRUE, v |-> HexVal(t[1])]
      [] Len(t) = 2 /\ IsHexDigit(t[1]) /\ IsHexDigit(t[2]) ->
            [ok |-> TRUE, v |-> 16 * HexVal(t[1]) + HexVal(t[2])]
      [] Len(t) = 2 /\ t[1] = "+" /\ IsHexDigit(t[2]) ->
            [ok |-> TRUE, v |-> HexVal(t[2])]
      [] Len(t) = 2 /\ t[1] = "-" /\ IsHexDigit(t[2]) ->
            [ok |-> TRUE, v |-> 0 - HexVal(t[2])]
      [] OTHER -> [ok |-> FALSE, v |-> 0]

\* ''.join([c*2 for c in hex_str])
DoubleEach(s) == [i \in 1..(2 * Len(s)) |-> s[(i + 1) \div 2]]

\* The literal "rgba(r, g, b, 1)", in quotes
Rgba(r, g, b) == [k |-> "rgba", r |-> r, g |-> g, b |-> b, s |-> <<>>]
\* The text s, in quotes
Quoted(s) == [k |-> "text", r |-> 0, g |-> 0, b |-> 0, s |-> s]

to_rgba(c) ==
    LET color_str == Strip(c)
        tail == IF color_str = <<>> THEN <<>> ELSE Tail(color_str)
        hex_str == IF Len(tail) = 3 THEN DoubleEach(tail) ELSE tail
        r == ParseInt16(SubSeq(hex_str, 1, 2))
        g == ParseInt16(SubSeq(hex_str, 3, 4))
        b == ParseInt16(SubSeq(hex_str, 5, 6))
    IN  IF StartsWith(color_str, <<"#">>) /\ Len(hex_str) = 6
           /\ r.ok /\ g.ok /\ b.ok
        THEN Rgba(r.v, g.v, b.v)
        ELSE IF StartsWith(Lower(color_str), <<"r", "g", "b">>)
             THEN Quoted(color_str)
             ELSE Quoted(c)

(***************************************************************************)
(* Values the generator handles.                                           *)
(***************************************************************************)
\* color / color_errorbar: a descriptor is a sequence of characters
CNone == [kind |-> "none", s |-> <<>>, l |-> <<>>]
CStr(d) == [kind |-> "str", s |-> d, l |-> <<>>]
CList(q) == [kind |-> "list", s |-> <<>>, l |-> q]

\* xlim: None or a pair, in tenths
NoLim == [given |-> FALSE, lo |-> 0, hi |-> 0]
Lim(lo, hi) == [given |-> TRUE, lo |-> lo, hi |-> hi]

\* A cell of a column: a number (in tenths) or null
NullCell == [isnull |-> TRUE, v |-> 0]
Cell(v) == [isnull |-> FALSE, v |-> v]

\* An entry of js_x, js_x_lower, js_x_upper: cell.row["col"] or a number
CellRef(col) == [k |-> "cell", col |-> col, n |-> 0]
Num(n) == [k |-> "num", col |-> "", n |-> n]

\* An entry of js_legend_label: the label in quotes
QuotedLabel(label) == [quoted |-> label]

\* No exception / ValueError("Column '<col>' not found in DataFrame")
NoError == [kind |-> "none", col |-> ""]
ColumnNotFound(col) == [kind |-> "ValueError", col |-> col]

\* Default of parameter color (line 26), '#FFD700'
Gold == <<"#", "F", "F", "D", "7", "0", "0">>
\* '#FFFFFF00' (line 177)
Transparent == <<"#", "F", "F", "F", "F", "F", "F", "0", "0">>
\* A named colour
Red == <<"r", "e", "d">>

\* DefaultMargin with the padding entry forgotten: [0, 0, 0, 0]
FourZeroMargin == <<0, 0, 0, 0>>

\* margin = [0, 0, 0, 0, 0] (line 92)
DefaultMargin == <<0, 0, 0, 0, 0>>

\* text = ['""'] * len(x) (line 114): the entry
EmptyText == "\"\""

\* xlim = (min - 0.5, max + 0.5) (line 189): the padding, in tenths
Pad == 5
\* xlim = (0, 1) (line 191), in tenths
DefaultLim == Lim(0, 10)

\* The placeholders of planning/sparkline.js that the model follows
Template ==
    {"js_x", "js_y", "js_x_lower", "js_x_upper", "js_x_range", "js_y_range",
     "js_text", "js_color", "js_color_errorbar", "js_margin",
     "js_legend_label", "data_trace"}

\* No string returned yet
NoCode == [returned |-> FALSE, subst |-> <<>>]

(***************************************************************************)
(* The frame of one call: the parameters and locals of sparkline_point_js. *)
(***************************************************************************)
Frame ==
    [tbl |-> tbl, typ |-> typ, x |-> x, x_lower |-> x_lower,
     x_upper |-> x_upper, xlim |-> xlim, y |-> y, text |-> text,
     color |-> color, color_errorbar |-> color_errorbar,
     legend_label |-> legend_label, margin |-> margin,
     js_x |-> js_x, js_y |-> js_y, js_x_lower |-> js_x_lower,
     js_x_upper |-> js_x_upper, js_x_range |-> js_x_range,
     js_y_range |-> js_y_range, js_text |-> js_text, js_color |-> js_color,
     js_color_errorbar |-> js_color_errorbar,
     js_legend_label |-> js_legend_label, js_margin |-> js_margin,
     data_traces |-> data_traces, template_content |-> template_content,
     raised |-> raised, js_code |-> js_code]

\* The frame on entry: the arguments bound, nothing derived
EntryFrame(r, t) ==
    [tbl |-> t, typ |-> r.typ, x |-> r.x, x_lower |-> r.x_lower,
     x_upper |-> r.x_upper, xlim |-> r.xlim, y |-> r.y, text |-> r.text,
     color |-> r.color, color_errorbar |-> r.color_errorbar,
     legend_label |-> r.legend_label, margin |-> r.margin,
     js_x |-> <<>>, js_y |-> <<>>, js_x_lower |-> <<>>, js_x_upper |-> <<>>,
     js_x_range |-> <<>>, js_y_range |-> <<>>, js_text |-> <<>>,
     js_color |-> <<>>, js_color_errorbar |-> <<>>,
     js_legend_label |-> <<>>, js_margin |-> <<>>,
     data_traces |-> <<>>, template_content |-> {},
     raised |-> NoError, js_code |-> NoCode]

\* The variables hold frame f
Bind(f) ==
    /\ tbl = f.tbl
    /\ typ = f.typ
    /\ x = f.x
    /\ x_lower = f.x_lower
    /\ x_upper = f.x_upper
    /\ xlim = f.xlim
    /\ y = f.y
    /\ text = f.text
    /\ color = f.color
    /\ color_errorbar = f.color_errorbar
    /\ legend_label = f.legend_label
    /\ margin = f.margin
    /\ js_x = f.js_x
    /\ js_y = f.js_y
    /\ js_x_lower = f.js_x_lower
    /\ js_x_upper = f.js_x_upper
    /\ js_x_range = f.js_x_range
    /\ js_y_range = f.js_y_range
    /\ js_text = f.js_text
    /\ js_color = f.js_color
    /\ js_color_errorbar = f.js_color_errorbar
    /\ js_legend_label = f.js_legend_label
    /\ js_margin = f.js_margin
    /\ data_traces = f.data_traces
    /\ template_content = f.template_content
    /\ raised = f.raised
    /\ js_code = f.js_code

\* The frame written back to the variables
Install(f) ==
    /\ tbl' = f.tbl
    /\ typ' = f.typ
    /\ x' = f.x
    /\ x_lower' = f.x_lower
    /\ x_upper' = f.x_upper
    /\ xlim' = f.xlim
    /\ y' = f.y
    /\ text' = f.text
    /\ color' = f.color
    /\ color_errorbar' = f.color_errorbar
    /\ legend_label' = f.legend_label
    /\ margin' = f.margin
    /\ js_x' = f.js_x
    /\ js_y' = f.js_y
    /\ js_x_lower' = f.js_x_lower
    /\ js_x_upper' = f.js_x_upper
    /\ js_x_range' = f.js_x_range
    /\ js_y_range' = f.js_y_range
    /\ js_text' = f.js_text
    /\ js_color' = f.js_color
    /\ js_color_errorbar' = f.js_color_errorbar
    /\ js_legend_label' = f.js_legend_label
    /\ js_margin' = f.js_margin
    /\ data_traces' = f.data_traces
    /\ template_content' = f.template_content
    /\ raised' = f.raised
    /\ js_code' = f.js_code

(***************************************************************************)
(* The blocks of sparkline_point_js, each a function of the frame.         *)
(***************************************************************************)
\* len(x), once x is a list
NSeries(f) == Len(f.x.l)

\* if isinstance(p, str): p = [p] * n
Broadcast(p, n) == IF p.kind = "str" THEN List(Repeat(p.s, n)) ELSE p
BroadcastColor(p, n) == IF p.kind = "str" THEN CList(Repeat(p.s, n)) ELSE p

\* DefaultsBlock with the bounds defaulted both ways: x_lower also takes
\* x_upper when it is None
DefaultsBlockSymmetric(f) ==
    [f EXCEPT
        !.margin = IF f.margin.kind = "none"
                   THEN List(DefaultMargin) ELSE f.margin,
        !.x_upper = IF f.x_upper.kind = "none"
                    THEN f.x_lower ELSE f.x_upper,
        !.x_lower = IF f.x_lower.kind = "none"
                    THEN f.x_upper ELSE f.x_lower,
        !.color_errorbar = IF f.color_errorbar.kind = "none"
                           THEN f.color ELSE f.color_errorbar]

\* Lines 90-98: "Set defaults"
DefaultsBlock(f) ==
    [f EXCEPT
        !.margin = IF f.margin.kind = "none"
                   THEN List(DefaultMargin) ELSE f.margin,
        !.x_upper = IF f.x_upper.kind = "none"
                    THEN f.x_lower ELSE f.x_upper,
        !.color_errorbar = IF f.color_errorbar.kind = "none"
                           THEN f.color ELSE f.color_errorbar]

\* Lines 100-116: "Convert single values to lists"
ConvertBlock(f) ==
    LET xl == IF f.x.kind = "str" THEN List(<<f.x.s>>) ELSE f.x
        n == Len(xl.l)
    IN  [f EXCEPT
            !.x = xl,
            !.color = BroadcastColor(f.color, n),
            !.color_errorbar = BroadcastColor(f.color_errorbar, n),
            !.y = IF f.y.kind = "none"
                  THEN List([i \in 1..n |-> i]) ELSE f.y,
            !.text = IF f.text.kind = "none"
                     THEN List(Repeat(EmptyText, n))
                     ELSE Broadcast(f.text, n)]

\* CheckColumns with the loop collecting the absent columns and reporting
\* the last one
CheckColumnsLast(cols, columns) ==
    LET absent == { i \in 1..Len(cols) : cols[i] \notin Range(columns) }
    IN  IF absent = {}
        THEN NoError
        ELSE ColumnNotFound(cols[CHOOSE i \in absent :
                                    \A j \in absent : i >= j])

\* for col in cols: if col not in tbl.columns: raise ValueError(...)
\* The exception the loop raises, NoError when it runs to its end.
CheckColumns(cols, columns) ==
    LET absent == { i \in 1..Len(cols) : cols[i] \notin Range(columns) }
    IN  IF absent = {}
        THEN NoError
        ELSE ColumnNotFound(cols[CHOOSE i \in absent :
                                    \A j \in absent : i <= j])

\* Lines 119-121
ValidateValueColumns(f) ==
    [f EXCEPT !.raised = CheckColumns(f.x.l, f.tbl.columns)]

\* Lines 123-128
ValidateLowerColumns(f) ==
    IF f.x_lower.kind = "none"
    THEN f
    ELSE LET xl == Broadcast(f.x_lower, NSeries(f))
         IN  [f EXCEPT !.x_lower = xl,
                       !.raised = CheckColumns(xl.l, f.tbl.columns)]

\* Lines 130-135
ValidateUpperColumns(f) ==
    IF f.x_upper.kind = "none"
    THEN f
    ELSE LET xu == Broadcast(f.x_upper, NSeries(f))
         IN  [f EXCEPT !.x_upper = xu,
                       !.raised = CheckColumns(xu.l, f.tbl.columns)]

\* [f'cell.row["{col}"]' for col in cols]
CellRefs(cols) == [i \in 1..Len(cols) |-> CellRef(cols[i])]

\* Lines 167-170
JsX(f) ==
    IF f.typ = "cell"
    THEN CellRefs(f.x.l)
    ELSE [i \in 1..Len(f.color.l) |-> Num(i - 1)]

\* Line 174: the error bars are switched off
NoErrorBars(f) == f.x_lower.kind = "none" \/ f.typ \in {"footer", "header"}

\* Lines 166-180: "Prepare JavaScript variables"
PrepareBlock(f) ==
    [f EXCEPT
        !.js_x = JsX(f),
        !.js_y = f.y.l,
        !.js_x_lower = IF NoErrorBars(f)
                       THEN <<Num(0)>> ELSE CellRefs(f.x_lower.l),
        !.js_x_upper = IF NoErrorBars(f)
                       THEN <<Num(0)>> ELSE CellRefs(f.x_upper.l),
        !.color_errorbar = IF NoErrorBars(f)
                           THEN CList(Repeat(Transparent, NSeries(f)))
                           ELSE f.color_errorbar]

SetMin(S) == CHOOSE v \in S : \A w \in S : v <= w
SetMax(S) == CHOOSE v \in S : \A w \in S : v >= w

\* XVals with only the first value column read
XValsFirstColumn(f) ==
    { f.tbl.data[f.x.l[1]][i].v :
        i \in { j \in 1..Len(f.tbl.data[f.x.l[1]]) :
                  ~f.tbl.data[f.x.l[1]][j].isnull } }

\* Lines 184-187: the non-null values of the value columns
XVals(f) ==
    UNION { { f.tbl.data[f.x.l[k]][i].v :
                i \in { j \in 1..Len(f.tbl.data[f.x.l[k]]) :
                          ~f.tbl.data[f.x.l[k]][j].isnull } } :
            k \in 1..NSeries(f) }

\* Lines 183-191
XLim(f) ==
    IF f.xlim.given
    THEN f.xlim
    ELSE IF XVals(f) # {}
         THEN Lim(SetMin(XVals(f)) - Pad, SetMax(XVals(f)) + Pad)
         ELSE DefaultLim

\* Lines 182-194: "Calculate x range if not provided"
RangeBlock(f) ==
    [f EXCEPT
        !.xlim = XLim(f),
        !.js_x_range = <<XLim(f).lo, XLim(f).hi>>,
        !.js_y_range = <<0, NSeries(f) + 1>>]

\* Line 218
JsLegendLabel(f) ==
    IF f.legend_label.kind = "list" /\ f.legend_label.l # <<>>
    THEN [i \in 1..Len(f.legend_label.l) |-> QuotedLabel(f.legend_label.l[i])]
    ELSE <<>>

\* Lines 196-219 (of the variables the model follows)
FormatBlock(f) ==
    [f EXCEPT
        !.js_text = f.text.l,
        !.js_color = [i \in 1..Len(f.color.l) |-> to_rgba(f.color.l[i])],
        !.js_color_errorbar =
            [i \in 1..Len(f.color_errorbar.l) |-> to_rgba(f.color_errorbar.l[i])],
        !.js_legend_label = JsLegendLabel(f),
        !.js_margin = f.margin.l]

\* Lines 224-251: the trace of index i, as the index each of its fields reads
Trace(i) ==
    [x |-> i, y |-> i, array |-> i, arrayminus |-> i, color_errorbar |-> i,
     text |-> i, name |-> i, color |-> i]

\* TraceBlock with the loop running over range(1, len(x) + 1)
TraceBlockFromOne(f) ==
    [f EXCEPT !.data_traces = [i \in 1..NSeries(f) |-> Trace(i)]]

\* Lines 221-254: "Create data trace"
TraceBlock(f) ==
    [f EXCEPT !.data_traces = [i \in 1..NSeries(f) |-> Trace(i - 1)]]

\* Lines 256-259
ReadTemplateBlock(f) == [f EXCEPT !.template_content = Template]

\* The keyword arguments of safe_substitute (lines 264-285)
Mapping(f) ==
    [js_x |-> f.js_x, js_y |-> f.js_y, js_x_lower |-> f.js_x_lower,
     js_x_upper |-> f.js_x_upper, js_x_range |-> f.js_x_range,
     js_y_range |-> f.js_y_range, js_text |-> f.js_text,
     js_color |-> f.js_color, js_color_errorbar |-> f.js_color_errorbar,
     js_margin |-> f.js_margin, js_legend_label |-> f.js_legend_label,
     data_trace |-> f.data_traces]

\* Lines 261-287: the template with each placeholder replaced by its value
SubstituteBlock(f) ==
    [f EXCEPT !.js_code =
        [returned |-> TRUE,
         subst |-> [p \in f.template_content |-> Mapping(f)[p]]]]

\* Blocks with the template read on entry, before the arguments are checked
BlocksTemplateFirst ==
    <<"read_template", "defaults", "convert", "validate_x", "validate_lower",
      "validate_upper", "prepare", "range", "format", "traces", "substitute">>

\* The blocks in the order of the function's text
Blocks ==
    <<"defaults", "convert", "validate_x", "validate_lower", "validate_upper",
      "prepare", "range", "format", "traces", "read_template", "substitute">>

RunBlock(name, f) ==
    CASE name = "defaults" -> DefaultsBlock(f)
      [] name = "convert" -> ConvertBlock(f)
      [] name = "validate_x" -> ValidateValueColumns(f)
      [] name = "validate_lower" -> ValidateLowerColumns(f)
      [] name = "validate_upper" -> ValidateUpperColumns(f)
      [] name = "prepare" -> PrepareBlock(f)
      [] name = "range" -> RangeBlock(f)
      [] name = "format" -> FormatBlock(f)
      [] name = "traces" -> TraceBlock(f)
      [] name = "read_template" -> ReadTemplateBlock(f)
      [] name = "substitute" -> SubstituteBlock(f)

\* The whole call from block k on: an exception ends it
RECURSIVE RunFrom(_, _)
RunFrom(k, f) ==
    IF k > Len(Blocks) \/ f.raised # NoError
    THEN f
    ELSE RunFrom(k + 1, RunBlock(Blocks[k], f))

\* What a call returns or raises
Outcome(r, t) ==
    LET f == RunFrom(1, EntryFrame(r, t))
    IN  [raised |-> f.raised, js_code |-> f.js_code]

(***************************************************************************)
(* The calls enumerated.                                                   *)
(***************************************************************************)
\* The DataFrame of planning/example_sparkline.py (lines 14-17), with a
\* second value column that holds a null.
ExampleTbl ==
    [columns |-> <<"a", "b", "e">>,
     data |-> [c \in {"a", "b", "e"} |->
                 CASE c = "a" -> <<Cell(51), Cell(49), Cell(47)>>
                   [] c = "b" -> <<NullCell, Cell(60), Cell(12)>>
                   [] c = "e" -> <<Cell(3), Cell(2), Cell(4)>>]]

\* The defaults of the signature (lines 13-35), on value column "a"
BaseReq ==
    [x |-> Str("a"), typ |-> "cell", x_lower |-> None, x_upper |-> None,
     xlim |-> NoLim, y |-> None, text |-> None, color |-> CStr(Gold),
     color_errorbar |-> CNone, legend_label |-> None, margin |-> None]

\* x: a name or a list of one to MaxSeries names
ValueArgs(names) ==
    { Str(c) : c \in names } \cup { List(q) : q \in SeqsOf(names, 1, MaxSeries) }

\* x_lower, x_upper: None, a name or a list of names
BoundArgs(names) == {None} \cup ValueArgs(names)

\* The values of parameter type: the three the docstring lists (line 46)
\* and one it does not
Types == {"cell", "footer", "header", "other"}

\* Calls that differ in the columns they name: "z" and "w" are no columns
ColumnReqs ==
    { [BaseReq EXCEPT !.x = a, !.x_lower = lo, !.x_upper = up, !.typ = t] :
        a \in ValueArgs({"a", "b", "z", "w"}),
        lo \in BoundArgs({"e", "w"}),
        up \in BoundArgs({"e", "z"}),
        t \in {"cell", "footer"} }

\* Calls that differ in the error bars and the margin they ask for
ErrorBarReqs ==
    { [BaseReq EXCEPT !.x = a, !.x_lower = lo, !.x_upper = up, !.typ = t,
                      !.color_errorbar = ce, !.legend_label = ll,
                      !.margin = m] :
        a \in ValueArgs({"a", "b"}),
        lo \in BoundArgs({"e"}),
        up \in BoundArgs({"b"}),
        t \in Types,
        ce \in {CNone, CStr(Red), CList(<<Red, Gold>>)},
        ll \in {None, List(<<"L1", "L2">>)},
        m \in {None, List(<<1, 2, 3, 4, 5>>), List(<<10, 20, 30, 40>>)} }

\* Calls that differ in the lengths of the per-series lists
ShapeReqs ==
    { [BaseReq EXCEPT !.x = a, !.color = c, !.color_errorbar = ce, !.y = yy,
                      !.text = tx, !.legend_label = ll, !.x_lower = lo,
                      !.typ = t] :
        a \in ValueArgs({"a"}),
        c \in {CStr(Gold)} \cup { CList(q) : q \in SeqsOf({Red}, 1, MaxSeries) },
        ce \in {CNone} \cup { CList(q) : q \in SeqsOf({Gold}, 1, MaxSeries) },
        yy \in {None} \cup { List(q) : q \in SeqsOf({7}, 1, MaxSeries) },
        tx \in {None} \cup ValueArgs({"t"}),
        ll \in {None} \cup { List(q) : q \in SeqsOf({"L"}, 0, MaxSeries) },
        lo \in BoundArgs({"e"}),
        t \in {"cell", "header"} }

\* DataFrames of zero to MaxRows rows whose value columns hold nulls and
\* the extremes of the example's values
RangeTbls ==
    UNION { { [columns |-> <<"a", "b", "e">>,
               data |-> [c \in {"a", "b", "e"} |->
                           CASE c = "a" -> ca
                             [] c = "b" -> cb
                             [] c = "e" -> Repeat(NullCell, n)]] :
                ca \in [1..n -> {NullCell, Cell(47), Cell(51)}],
                cb \in [1..n -> {NullCell, Cell(47), Cell(51)}] } :
            n \in 0..MaxRows }

\* Calls that differ in the axis range they ask for; "z" is no column
RangeReqs ==
    { [BaseReq EXCEPT !.x = a, !.xlim = lim] :
        a \in ValueArgs({"a", "b"}) \cup {Str("z")},
        lim \in {NoLim, Lim(-5, 100)} }

\* The characters enumerated after '#': two digits, a sign, a blank and a
\* letter that is no hexadecimal digit
HexAlphabet == {"0", "F", "-", " ", "g"}

\* Colour descriptors before surrounding blanks are added
Bodies ==
    { <<"#">> \o t : t \in SeqsOf(HexAlphabet, 0, MaxHexLen) }
    \cup { Gold, Transparent, Red, <<>>,
           <<"#", "A", "B", "C">>, <<"#", "a", "b", "c">>,
           <<"#", "A", "A", "B", "B", "C", "C">>,
           <<"#", "+", "1", "+", "2", "+", "3">>,
           <<"r", "g", "b", "(", "1", ")">>,
           <<"R", "G", "B", "a", "(", "1", ")">>,
           <<"r", "g">> }

\* The colour descriptors to_rgba is called on
Descriptors ==
    { lead \o body \o trail :
        lead \in {<<>>, <<" ">>}, body \in Bodies, trail \in {<<>>, <<" ">>} }

(***************************************************************************)
(* The state machine: one call, block by block.                            *)
(***************************************************************************)
NoOutput == [k |-> "none", r |-> 0, g |-> 0, b |-> 0, s |-> <<>>]

\* A call of sparkline_point_js(t, **r) about to start
Entry(r, t) ==
    /\ req = r
    /\ pc = Blocks[1]
    /\ ran = <<>>
    /\ Bind(EntryFrame(r, t))
    /\ color_name = <<>>
    /\ rgba_out = NoOutput

Init == \E r \in ColumnReqs : Entry(r, ExampleTbl)
InitErrorBars == \E r \in ErrorBarReqs : Entry(r, ExampleTbl)
InitShapes == \E r \in ShapeReqs : Entry(r, ExampleTbl)
InitRange == \E r \in RangeReqs, t \in RangeTbls : Entry(r, t)

\* to_rgba about to be called on a descriptor
InitColor ==
    /\ req = BaseReq
    /\ pc = "to_rgba"
    /\ ran = <<>>
    /\ Bind(EntryFrame(BaseReq, ExampleTbl))
    /\ color_name \in Descriptors
    /\ rgba_out = NoOutput

\* The block after block `name`
NextBlock(name) ==
    LET k == CHOOSE i \in 1..Len(Blocks) : Blocks[i] = name
    IN  IF k = Len(Blocks) THEN "done" ELSE Blocks[k + 1]

\* Block `name` runs and leaves frame g
Step(name, g) ==
    /\ pc = name
    /\ Install(g)
    /\ ran' = Append(ran, name)
    /\ pc' = IF g.raised # NoError THEN "failed" ELSE NextBlock(name)
    /\ UNCHANGED <<req, color_name, rgba_out>>

SetDefaults == Step("defaults", DefaultsBlock(Frame))
ConvertToLists == Step("convert", ConvertBlock(Frame))
ValidateX == Step("validate_x", ValidateValueColumns(Frame))
ValidateLower == Step("validate_lower", ValidateLowerColumns(Frame))
ValidateUpper == Step("validate_upper", ValidateUpperColumns(Frame))
PrepareJs == Step("prepare", PrepareBlock(Frame))
CalcRange == Step("range", RangeBlock(Frame))
FormatVars == Step("format", FormatBlock(Frame))
CreateTraces == Step("traces", TraceBlock(Frame))
ReadTemplate == Step("read_template", ReadTemplateBlock(Frame))
Substitute == Step("substitute", SubstituteBlock(Frame))

Next ==
    \/ SetDefaults
    \/ ConvertToLists
    \/ ValidateX
    \/ ValidateLower
    \/ ValidateUpper
    \/ PrepareJs
    \/ CalcRange
    \/ FormatVars
    \/ CreateTraces
    \/ ReadTemplate
    \/ Substitute

Spec == Init /\ [][Next]_vars
SpecErrorBars == InitErrorBars /\ [][Next]_vars
SpecShapes == InitShapes /\ [][Next]_vars
SpecRange == InitRange /\ [][Next]_vars

\* Lines 138-164: to_rgba runs and returns
Translate ==
    /\ pc = "to_rgba"
    /\ rgba_out' = to_rgba(color_name)
    /\ pc' = "returned"
    /\ UNCHANGED <<ran, tbl, req, typ, x, x_lower, x_upper, xlim, y, text,
                   color, color_errorbar, legend_label, margin,
                   js_x, js_y, js_x_lower, js_x_upper, js_x_range, js_y_range,
                   js_text, js_color, js_color_errorbar, js_legend_label,
                   js_margin, data_traces, template_content, raised, js_code,
                   color_name>>

NextColor == Translate

SpecColor == InitColor /\ [][NextColor]_vars

(***************************************************************************)
(* Properties.  What a property says about the arguments it reads from     *)
(* req, the arguments as the caller passed them.                           *)
(***************************************************************************)
Returned == pc = "done"
Failed == pc = "failed"
Ended == Returned \/ Failed

\* The names an argument lists: none, one, or those of the list
ArgCols(p) ==
    CASE p.kind = "none" -> <<>>
      [] p.kind = "str" -> <<p.s>>
      [] p.kind = "list" -> p.l

\* The number of value columns of the call
NValue == Len(ArgCols(req.x))

\* Every column the call names, in declaration order
Referenced == ArgCols(req.x) \o ArgCols(req.x_lower) \o ArgCols(req.x_upper)

IsColumn(c) == \E i \in 1..Len(tbl.columns) : tbl.columns[i] = c

\* The positions of Referenced that name no column of the DataFrame
AbsentAt == { i \in 1..Len(Referenced) : ~IsColumn(Referenced[i]) }

\* C1: a call (of one or more value columns) that names a column the
\* DataFrame does not have never returns a string; it ends with the missing-column error, and the error names the
\* first absent column in declaration order (value columns in list order,
\* then lower-bound columns, then upper-bound columns).
C1_FirstAbsentColumnNamed ==
    AbsentAt # {} =>
        /\ ~Returned
        /\ ~js_code.returned
        /\ ~Ended => pc \in Range(Blocks)
        /\ Failed =>
            \E i \in AbsentAt :
                /\ \A j \in AbsentAt : i <= j
                /\ raised = ColumnNotFound(Referenced[i])

\* C1, its case: the value columns exist, a lower-bound column and an
\* upper-bound column do not, and the error names the lower-bound one.
C1_Witness ==
    /\ Failed
    /\ \A i \in 1..NValue : IsColumn(ArgCols(req.x)[i])
    /\ req.x_lower = List(<<"e", "w">>)
    /\ req.x_upper = List(<<"z", "e">>)
    /\ raised = ColumnNotFound("w")

\* The traces of a returned string: one per value column, the i-th reading
\* index i (from 0) of every list
OneTracePerValueColumn ==
    /\ js_code.returned
    /\ DOMAIN js_code.subst # {}
    /\ Len(js_code.subst.data_trace) = NValue
    /\ \A i \in 1..NValue :
        LET t == js_code.subst.data_trace[i]
        IN  /\ t.x = i - 1
            /\ t.y = i - 1
            /\ t.color = i - 1
            /\ t.array = i - 1
            /\ t.arrayminus = i - 1
            /\ t.color_errorbar = i - 1
            /\ t.text = i - 1
            /\ t.name = i - 1

\* C2 as stated: whenever every value column of x is a column of the
\* DataFrame the call returns a non-empty string with one trace per value
\* column, in the caller's order.
C2_ValueColumnsSuffice ==
    (Ended /\ \A i \in 1..NValue : IsColumn(ArgCols(req.x)[i])) =>
        (Returned /\ OneTracePerValueColumn)

\* C2, amended: whenever every column the call names (in x, x_lower and
\* x_upper) is a column of the DataFrame, the call does not fail, and it
\* returns a non-empty string with one trace per value column, the i-th
\* trace indexing the i-th value column.
C2_ReferencedColumnsSuffice ==
    AbsentAt = {} =>
        /\ ~Failed
        /\ raised = NoError
        /\ ~Ended => pc \in Range(Blocks)
        /\ Returned => OneTracePerValueColumn

\* C2, its case: a returned string for two different value columns with
\* lower-bound columns given.
C2_Witness ==
    /\ Returned
    /\ req.x = List(<<"b", "a">>)
    /\ req.x_lower = Str("e")
    /\ Len(js_code.subst.data_trace) = 2
    /\ js_code.subst.js_x = <<CellRef("b"), CellRef("a")>>

\* A per-series argument that is a list has one entry per value column
FitsSeries(p) == p.kind = "list" => Len(p.l) = NValue

\* Every per-series list the caller passed has one entry per value column
ShapesMatch ==
    /\ FitsSeries(req.color)
    /\ FitsSeries(req.color_errorbar)
    /\ FitsSeries(req.y)
    /\ FitsSeries(req.text)
    /\ FitsSeries(req.legend_label)
    /\ FitsSeries(req.x_lower)
    /\ FitsSeries(req.x_upper)

\* C3: a call in which, after broadcasting, some per-series sequence has a
\* length other than the number of value columns returns no string: every
\* returned string comes from sequences of length len(x).
C3_ShapeMismatchRejected == Returned => ShapesMatch

\* The literal the claim describes for descriptor d
IsHexText(t) == \A i \in 1..Len(t) : IsHexDigit(t[i])
Byte(t, i) == 16 * HexVal(t[i]) + HexVal(t[i + 1])
ClaimedLiteral(d) ==
    LET t == Strip(d)
        h == IF t = <<>> THEN <<>> ELSE Tail(t)
        h6 == IF Len(h) = 3 THEN DoubleEach(h) ELSE h
    IN  IF t # <<>> /\ Head(t) = "#" /\ Len(h6) = 6 /\ IsHexText(h6)
        THEN Rgba(Byte(h6, 1), Byte(h6, 3), Byte(h6, 5))
        ELSE Quoted(d)

\* C4: to_rgba returns rgba(r, g, b, 1) with r, g, b in 0..255 exactly for
\* the descriptors that, trimmed, are '#' and three or six hexadecimal
\* digits, and the original text in quotes for every other descriptor.
C4_ToRgbaContract ==
    pc = "returned" =>
        /\ rgba_out = ClaimedLiteral(color_name)
        /\ rgba_out.k = "rgba" =>
            {rgba_out.r, rgba_out.g, rgba_out.b} \subseteq 0..255

\* The non-null values of the value columns of the call
ValueAt(c, i) == tbl.data[c][i]
NonNullCells ==
    { p \in (1..NValue) \X (1..Len(tbl.data["a"])) :
        ~ValueAt(ArgCols(req.x)[p[1]], p[2]).isnull }
NonNullValues == { ValueAt(ArgCols(req.x)[p[1]], p[2]).v : p \in NonNullCells }

\* C5: the emitted horizontal range is the caller's xlim when given,
\* otherwise [min - 0.5, max + 0.5] over the non-null values of all value
\* columns together, and [0, 1] without a failure when there is none; the
\* vertical range is [0, len(x) + 1].
C5_AxisRanges ==
    /\ (\A i \in 1..NValue : IsColumn(ArgCols(req.x)[i])) => ~Failed
    /\ Returned =>
        /\ js_code.subst.js_y_range = <<0, NValue + 1>>
        /\ req.xlim.given =>
            js_code.subst.js_x_range = <<req.xlim.lo, req.xlim.hi>>
        /\ (~req.xlim.given /\ NonNullValues = {}) =>
            js_code.subst.js_x_range = <<0, 10>>
        /\ (~req.xlim.given /\ NonNullValues # {}) =>
            /\ js_code.subst.js_x_range[1] + 5 \in NonNullValues
            /\ js_code.subst.js_x_range[2] - 5 \in NonNullValues
            /\ \A v \in NonNullValues :
                /\ js_code.subst.js_x_range[1] + 5 <= v
                /\ v <= js_code.subst.js_x_range[2] - 5

\* C5, its case: no xlim, the minimum in the second value column, the
\* maximum in the first, a null among the values.
C5_Witness ==
    /\ Returned
    /\ ~req.xlim.given
    /\ req.x = List(<<"a", "b">>)
    /\ tbl.data["a"] = <<NullCell, Cell(51)>>
    /\ tbl.data["b"] = <<Cell(47), NullCell>>
    /\ js_code.subst.js_x_range = <<42, 56>>

\* The blocks that derive the output
Derivation ==
    {"prepare", "range", "format", "traces", "read_template", "substitute"}
\* The blocks of the Parameter Normalizer
Normalizer == {"defaults", "convert"}
\* The blocks of the Column Validator
Validation == {"validate_x", "validate_lower", "validate_upper"}

NothingDerived ==
    /\ Range(ran) \cap Derivation = {}
    /\ js_x = <<>> /\ js_y = <<>> /\ js_x_lower = <<>> /\ js_x_upper = <<>>
    /\ js_x_range = <<>> /\ js_y_range = <<>> /\ js_text = <<>>
    /\ js_color = <<>> /\ js_color_errorbar = <<>>
    /\ js_legend_label = <<>> /\ js_margin = <<>>
    /\ data_traces = <<>>
    /\ template_content = {}
    /\ js_code = NoCode

\* C6 as stated: the column validation is the first step of a call: no
\* block runs before it, and a call that fails validation has applied no
\* default or broadcast of the Parameter Normalizer and derived nothing.
C6_ValidationFirst ==
    /\ ran # <<>> => ran[1] \in Validation
    /\ Failed => (Range(ran) \subseteq Validation /\ NothingDerived)

\* C6, amended: the defaults and scalar broadcasts (lines 90-116) are
\* applied before the column validation; the validation of value, lower
\* and upper columns completes, or raises, before any JavaScript variable
\* is prepared, any colour translated, the range calculated, a trace
\* assembled or the template read; a call that fails validation has done
\* none of these and returns nothing.
C6_ValidationBeforeDerivation ==
    /\ (Range(ran) \cap Validation # {}) => Normalizer \subseteq Range(ran)
    /\ (Range(ran) \cap Derivation # {}) =>
            (Validation \subseteq Range(ran) /\ raised = NoError)
    /\ Failed =>
        /\ raised.kind = "ValueError"
        /\ Range(ran) \subseteq Normalizer \cup Validation
        /\ NothingDerived

\* C6, its case: the last validation, that of the upper-bound columns,
\* raises.
C6_Witness ==
    /\ Failed
    /\ ran = <<"defaults", "convert", "validate_x", "validate_lower",
               "validate_upper">>
    /\ raised = ColumnNotFound("z")
    /\ req.x_lower # None
    /\ NothingDerived

\* The columns the error bars of the call name, one per value column
LowerCols ==
    IF req.x_lower.kind = "str"
    THEN Repeat(req.x_lower.s, NValue) ELSE req.x_lower.l
UpperCols ==
    CASE req.x_upper.kind = "none" -> LowerCols
      [] req.x_upper.kind = "str" -> Repeat(req.x_upper.s, NValue)
      [] req.x_upper.kind = "list" -> req.x_upper.l

\* C7: when x_lower is omitted or type is anything but "cell", both
\* error-bar lengths are the single 0 and every error-bar colour is the
\* transparent one, whatever color_errorbar was passed; when type is "cell"
\* and x_lower is given they are the row's lower-bound columns (minus) and
\* upper-bound columns (plus).
C7_ErrorBarsOnlyInCells ==
    Returned =>
        IF req.x_lower.kind = "none" \/ req.typ # "cell"
        THEN /\ js_code.subst.js_x_lower = <<Num(0)>>
             /\ js_code.subst.js_x_upper = <<Num(0)>>
             /\ \A i \in 1..Len(js_code.subst.js_color_errorbar) :
                    js_code.subst.js_color_errorbar[i] = Quoted(Transparent)
        ELSE /\ js_code.subst.js_x_lower =
                    [i \in 1..Len(LowerCols) |-> CellRef(LowerCols[i])]
             /\ js_code.subst.js_x_upper =
                    [i \in 1..Len(UpperCols) |-> CellRef(UpperCols[i])]

\* Two outcomes are the same: the same exception or the same string
SameOutcome(a, b) ==
    /\ a.raised = b.raised
    /\ a.js_code.returned = b.js_code.returned
    /\ a.js_code.returned => a.js_code.subst = b.js_code.subst

\* The outcome of this call, and of the same call without x_upper
ThisOutcome == [raised |-> raised, js_code |-> js_code]
OutcomeWithoutUpper == Outcome([req EXCEPT !.x_upper = None], tbl)

\* C8 as stated: with x_lower omitted, a call with x_upper given ends as
\* the same call without x_upper does, also when x_upper names a column
\* that the DataFrame does not have.
C8_UpperIgnored ==
    (Ended /\ req.x_lower.kind = "none" /\ req.x_upper.kind # "none") =>
        SameOutcome(ThisOutcome, OutcomeWithoutUpper)

\* C8, amended: with x_lower omitted, a call with x_upper given ends as the
\* same call without x_upper does, provided every column x_upper names is a
\* column of the DataFrame; when one is not and the value columns exist,
\* the call raises the missing-column error for it.
C8_UpperIgnoredWhenPresent ==
    (Ended /\ req.x_lower.kind = "none" /\ req.x_upper.kind # "none") =>
        IF \A i \in 1..Len(ArgCols(req.x_upper)) :
                IsColumn(ArgCols(req.x_upper)[i])
        THEN SameOutcome(ThisOutcome, OutcomeWithoutUpper)
        ELSE (\A i \in 1..NValue : IsColumn(ArgCols(req.x)[i])) =>
                (Failed /\ raised.kind = "ValueError"
                   /\ raised.col \in Range(ArgCols(req.x_upper))
                   /\ ~IsColumn(raised.col))

\* C8, its case: a returned string for a call with x_upper but no x_lower.
C8_Witness ==
    /\ Returned
    /\ req.x_lower.kind = "none"
    /\ req.x_upper = List(<<"e", "e">>)
    /\ req.typ = "cell"
    /\ js_code.subst.js_x_upper = <<Num(0)>>

\* C9 as stated: without a margin argument the margin emitted is four
\* zeros; a margin argument is emitted entry for entry.
C9_DefaultMarginFourZeros ==
    Returned =>
        js_code.subst.js_margin =
            IF req.margin.kind = "none" THEN <<0, 0, 0, 0>> ELSE req.margin.l

\* C9, amended: without a margin argument the margin emitted is five zeros
\* (bottom, left, top, right, padding); a margin argument is emitted entry
\* for entry.
C9_DefaultMarginFiveZeros ==
    Returned =>
        js_code.subst.js_margin =
            IF req.margin.kind = "none"
            THEN <<0, 0, 0, 0, 0>> ELSE req.margin.l

\* C9, its case: a returned string for a call without a margin argument.
C9_Witness ==
    /\ Returned
    /\ req.margin.kind = "none"
    /\ Len(js_code.subst.js_margin) = 5

\* C10: in a returned string whose per-series arguments all had len(x)
\* entries, every list the traces index has len(x) entries, so that every
\* index a trace reads is within the list.
C10_EmittedListsCoverTraces ==
    (Returned /\ ShapesMatch) =>
        /\ Len(js_code.subst.js_x) = NValue
        /\ Len(js_code.subst.js_y) = NValue
        /\ Len(js_code.subst.js_x_lower) = NValue
        /\ Len(js_code.subst.js_x_upper) = NValue
        /\ Len(js_code.subst.js_text) = NValue
        /\ Len(js_code.subst.js_color) = NValue
        /\ Len(js_code.subst.js_color_errorbar) = NValue
        /\ Len(js_code.subst.js_legend_label) = NValue

====
